---- MODULE Spec2Model ----
(***************************************************************************)
(* crWRL: the crawl engine of src/crwlr_async.py (scheduler loop of main,  *)
(* the fetch worker crawl_url) and the buffer / flush pipeline of          *)
(* src/functions/buffer_handler.py (CrawlBufferHandler) with the sink of   *)
(* src/DataBase/database_manager.py.                                       *)
(*                                                                         *)
(* Spec     : one CLI session, seed to finalisation, with the buffer.      *)
(* BufSpec  : the buffer pipeline alone, driven by arbitrary appends,      *)
(*            monitor ticks and the finalisation sequence of main.         *)
(***************************************************************************)
EXTENDS Integers, Sequences, FiniteSets, TLC

\* ------------------------------------------------------------------ bounds
\* appends the buffer pipeline accepts in BufSpec before the crawl ends
MaxAppends == 3
\* calls of the sink that may raise during one session
MaxSinkFailures == 2
\* args.buffer_size: records before the monitor flushes
buffer_limit == 2
\* args.max_depth
max_depth == 1
\* args.workers
workers == 1
\* turns of the monitor loop counted while a buffered record waits
MaxTicks == 2

VARIABLES
    buffer,          \* CrawlBufferHandler.buffer: the in-memory list
    buffer_file,     \* the recovery mirror crawl_session_<id>_buffer.json
    flush_count,     \* CrawlBufferHandler.flush_count
    total_flushed,   \* CrawlBufferHandler.total_flushed
    delivered,       \* records the sink has accepted (committed)
    fails_left,      \* how many more sink calls may raise
    buffer_flush_event, \* asyncio.Event that stops buffer_monitor_task
    monitor_pc,      \* buffer_monitor_task: "running" | "exited"
    main_pc,         \* position of main()
    last,            \* history: the last call made on the handler
    appended,        \* history: every record ever appended, in order
    since_accept,    \* history: records appended since the last accepted flush
    flush_attempts,  \* history: flush() calls that reached the sink
    idle_ticks,      \* history: consecutive monitor turns that left a non-empty buffer unflushed
    found_subdomains,   \* the global set found_subdomains
    buffer_handler,  \* the global buffer_handler: TRUE once main has built the handler (not None)
    sub_iter,        \* main: subdomains the add_subdomain_record loop still has to add
    visited_urls,    \* the global set visited_urls
    found_paths,     \* the global set found_paths
    urls_lock,       \* asyncio.Lock urls_lock: 0 when free, else the task holding it
    shutdown_flag,   \* set by signal_handler
    urls_to_visit,   \* main: the pending list of (url, depth)
    batch,           \* main: the batch being processed
    task_pc,         \* position of each crawl_url task of the batch
    results,         \* new_urls of each task, what gather returns
    semaphore,       \* asyncio.Semaphore(args.workers): permits left
    pbar,            \* tqdm progress counter
    get_count,       \* history: session.get calls issued, per url
    depth_cut,       \* history: a page at the depth limit listed in-scope links
    cut_subdomains,  \* history: the subdomains of the in-scope links that pages at
                     \* the depth limit listed
    in_flight_at_cancel, \* history: urls of the batch in progress that were past the
                     \* visited test when shutdown_flag was set
    merge_dropped,   \* history: the merge just done left out a child already visited
    dropped_links,   \* history: a page processed in the batch in progress listed links
                     \* that the scheme, exclusion or same-domain test dropped
    faults,          \* environment: whether writes of the mirror file may fail
    session,         \* the crawl_sessions row and its crawl_metrics row in the database
    active_jobs,     \* main.py: ids in the dict active_jobs
    completed_jobs,  \* main.py: ids in the dict completed_jobs
    jobs,            \* main.py: the job dict of each id (status, _cancelled, results, error)
    crawler_state,   \* main.py: the CrawlerState objects, by the id that names each
    run_pc,          \* position of run_crawl_job for each job
    api_urls_to_visit,  \* run_crawl_job: urls_to_visit of each job
    api_batch,       \* run_crawl_job: the batch in progress of each job
    api_task_pc,     \* position of each crawl_url_api task of each job
    api_results,     \* what each crawl_url_api task of each job returned
    api_semaphore,   \* run_crawl_job: permits left of each job's semaphore
    api_fetched      \* history: the urls each job issued session.get for

buf_vars == <<buffer, buffer_file, flush_count, total_flushed, delivered,
              fails_left, buffer_flush_event, monitor_pc, last, appended,
              since_accept, flush_attempts, idle_ticks, sub_iter>>

crawl_vars == <<visited_urls, found_paths, urls_lock, shutdown_flag,
                urls_to_visit, batch, task_pc, results, semaphore, pbar,
                get_count, depth_cut, cut_subdomains, in_flight_at_cancel, merge_dropped, dropped_links>>

job_vars == <<active_jobs, completed_jobs, jobs, crawler_state, run_pc,
              api_urls_to_visit, api_batch, api_task_pc, api_results, api_semaphore,
              api_fetched>>

vars == <<buf_vars, crawl_vars, found_subdomains, main_pc, faults, session, buffer_handler,
          job_vars>>

\* --------------------------------------------------------------- records
\* add_url_record: the dictionary built for one fetch outcome
url_record(url, depth, status_code, error_message) ==
    [type |-> "url", url |-> url, depth |-> depth, status_code |-> status_code,
     error_message |-> error_message]

\* add_subdomain_record: the dictionary built for one subdomain
subdomain_record(subdomain) == [type |-> "subdomain", subdomain |-> subdomain]

\* ------------------------------------------------------- recovery mirror
NoFile == [exists |-> FALSE, valid |-> FALSE, records |-> <<>>]

\* a mirror file cut short by a json.dump that raised part-way
TruncatedFile == [exists |-> TRUE, valid |-> FALSE, records |-> <<>>]

\* faulty variant of written_json: the file is written before the append
written_json_stale(buf) ==
    [exists |-> TRUE, valid |-> TRUE,
     records |-> IF buf = <<>> THEN buf ELSE SubSeq(buf, 1, Len(buf) - 1)]

\* _write_buffer_to_json, the write went through: the whole buffer, in order
written_json(buf) == [exists |-> TRUE, valid |-> TRUE, records |-> buf]

\* _write_buffer_to_json: the file after the call. io is "ok", "open_failed"
\* (open() raised, the file is as it was) or "dump_failed" (json.dump raised
\* after open() truncated the file); the exception is swallowed either way.
write_buffer_to_json(buf, file, io) ==
    CASE io = "ok"          -> written_json(buf)
      [] io = "open_failed" -> file
      [] OTHER              -> TruncatedFile

\* os.path.exists(buffer_file) -> os.remove(buffer_file)
remove_buffer_file(file) == NoFile

Range(seq) == {seq[i] : i \in 1..Len(seq)}

\* ------------------------------------------------------------------ sink
\* _insert_to_database: url_records = [r for r in data if r.get('type') == 'url']
url_records(data) == SelectSeq(data, LAMBDA r : r.type = "url")

\* _insert_to_database: subdomain_records = [r for r in data if ... 'subdomain']
subdomain_records(data) == SelectSeq(data, LAMBDA r : r.type = "subdomain")

\* _insert_to_database: the calls it makes on db_manager: one log_url_batch when
\* there are url records, then one log_subdomain per subdomain record
sink_calls(data) ==
    (IF url_records(data) # <<>> THEN 1 ELSE 0) + Len(subdomain_records(data))

\* _insert_to_database(data) when the fail_at-th call on db_manager raises
\* (fail_at = 0: none does). Each call commits on its own (log_url_batch and
\* log_subdomain end with self.db.commit()), so the calls before the one that
\* raises stay accepted.
insert_to_database(data, fail_at) ==
    LET urls == url_records(data)
        subs == subdomain_records(data)
        url_calls == IF urls # <<>> THEN 1 ELSE 0
        calls_done == IF fail_at = 0 THEN url_calls + Len(subs) ELSE fail_at - 1
        subs_done == IF calls_done > url_calls THEN calls_done - url_calls ELSE 0
    IN  [raised   |-> fail_at # 0,
         accepted |-> (IF calls_done >= 1 /\ url_calls = 1 THEN Range(urls) ELSE {})
                      \cup {subs[i] : i \in 1..subs_done}]

\* --------------------------------------------------- CrawlBufferHandler
\* faulty variant of buffer_append: the record overwrites the buffer
buffer_replaced(buf, record) == <<record>>

\* add_record: self.buffer.append(record)
buffer_append(buf, record) == Append(buf, record)

\* faulty variant of should_flush: any record in the buffer is due
should_flush_nonempty(buf) == buf # <<>>

\* should_flush: len(self.buffer) >= self.buffer_limit
should_flush(buf) == Len(buf) >= buffer_limit

\* flush, success path: self.buffer.clear()
buffer_clear(buf) == <<>>

\* faulty variant of buffer_after_failed_flush: the batch is dropped
buffer_dropped_on_failure(buf, data_to_flush) == <<>>

\* flush, except path: self.buffer.extend(data_to_flush); the buffer was not
\* cleared before the sink raised, so it still holds data_to_flush
buffer_after_failed_flush(buf, data_to_flush) == buf \o data_to_flush

\* flush, success path: self.flush_count += 1
flush_count_after(fc) == fc + 1

\* faulty variant of flush_count_after_failure: every attempt is counted
flush_count_counting_attempts(fc) == fc + 1

\* flush, except path: the clause logs, extends the buffer and returns 0;
\* self.flush_count is not assigned
flush_count_after_failure(fc) == fc

\* faulty variant of total_flushed_after: counts the threshold, not the batch
total_flushed_by_limit(tf, data_to_flush) == tf + buffer_limit

\* flush, success path: self.total_flushed += len(data_to_flush)
total_flushed_after(tf, data_to_flush) == tf + Len(data_to_flush)

\* flush, success path: if os.path.exists(self.buffer_file): os.remove(...)
file_after_flush(file) == IF file.exists THEN remove_buffer_file(file) ELSE file

\* faulty variant of buffer_copy: only the first buffer_limit records are taken
buffer_copy_threshold(buf) == SubSeq(buf, 1, buffer_limit)

\* flush: data_to_flush = self.buffer.copy()
buffer_copy(buf) == buf

\* flush(): the handler's fields and the return value after the call, when the
\* fail_at-th sink call raises (0: none)
flush(buf, file, fc, tf, fail_at) ==
    IF buf = <<>>
    THEN [buffer |-> buf, buffer_file |-> file, flush_count |-> fc,
          total_flushed |-> tf, ret |-> 0, called |-> FALSE, raised |-> FALSE,
          accepted |-> {}, batch |-> <<>>]
    ELSE LET data_to_flush == buffer_copy(buf)
             res == insert_to_database(data_to_flush, fail_at)
         IN  IF ~res.raised
             THEN [buffer |-> buffer_clear(buf),
                   buffer_file |-> file_after_flush(file),
                   flush_count |-> flush_count_after(fc),
                   total_flushed |-> total_flushed_after(tf, data_to_flush),
                   ret |-> Len(data_to_flush), called |-> TRUE, raised |-> FALSE,
                   accepted |-> res.accepted, batch |-> data_to_flush]
             ELSE [buffer |-> buffer_after_failed_flush(buf, data_to_flush),
                   buffer_file |-> file, flush_count |-> flush_count_after_failure(fc),
                   total_flushed |-> tf, ret |-> 0, called |-> TRUE,
                   raised |-> TRUE, accepted |-> res.accepted,
                   batch |-> data_to_flush]

\* flush_if_needed(): flush() when should_flush(), else nothing and 0
flush_if_needed(buf, file, fc, tf, fail_at) ==
    IF should_flush(buf)
    THEN flush(buf, file, fc, tf, fail_at)
    ELSE [buffer |-> buf, buffer_file |-> file, flush_count |-> fc,
          total_flushed |-> tf, ret |-> 0, called |-> FALSE, raised |-> FALSE,
          accepted |-> {}, batch |-> <<>>]

\* final_flush: the leftover mirror is removed whatever flush() returned
file_after_final_flush(file) == IF file.exists THEN remove_buffer_file(file) ELSE file

\* faulty variant of final_flush: it flushes only at the threshold
final_flush_if_needed(buf, file, fc, tf, fail_at) ==
    LET r == flush_if_needed(buf, file, fc, tf, fail_at)
    IN  [r EXCEPT !.buffer_file = file_after_final_flush(r.buffer_file)]

\* final_flush(): remaining = self.flush(); remove the mirror; return remaining
final_flush(buf, file, fc, tf, fail_at) ==
    LET r == flush(buf, file, fc, tf, fail_at)
    IN  [r EXCEPT !.buffer_file = file_after_final_flush(r.buffer_file)]

\* ------------------------------------------------------------ URLs
\* a URL as urlparse / tldextract see it: scheme, subdomain labels, registrable
\* domain with its suffix, path
Url(scheme, sub, domain, path) ==
    [scheme |-> scheme, sub |-> sub, domain |-> domain, path |-> path]

\* args.url after normalize_url
base_url == Url("https", "", "a.test", "/")

\* what a page of the site can link to: pages of the site, a page on a
\* subdomain, a path the exclusion pattern matches (on a subdomain), a subdomain
\* the exclusion pattern matches, an ftp link, another site
InDomainUrls ==
    {base_url, Url("https", "", "a.test", "/a"), Url("https", "api", "a.test", "/b")}

Candidates ==
    InDomainUrls \cup {Url("https", "dev", "a.test", "/admin"),
                       Url("https", "old", "a.test", "/"),
                       Url("ftp", "files", "a.test", "/"),
                       Url("https", "", "b.test", "/")}

\* args.exclude_paths, as the set of paths the pattern matches
exclude_paths == {"/admin"}

\* args.exclude_subdomains, as the set of subdomain labels the pattern matches
exclude_subdomains == {"old"}

None == [sub |-> "", domain |-> ""]

\* is_same_domain
is_same_domain(url1, url2) == url1.domain = url2.domain

\* get_subdomain
get_subdomain(url) ==
    IF url.sub # "" /\ url.sub # "www"
    THEN [sub |-> url.sub, domain |-> url.domain]
    ELSE None

\* should_exclude
should_exclude(url) ==
    \/ exclude_paths # {} /\ url.path \in exclude_paths
    \/ /\ exclude_subdomains # {}
       /\ get_subdomain(url) # None
       /\ get_subdomain(url).sub \in exclude_subdomains

\* ----------------------------------------------------- crawl_url, helpers
Tasks == 1..(2 * workers)

\* faulty variant of visited_add: the set is replaced by the url
visited_replaced(visited, url) == {url}

\* visited_urls.add(url)
visited_add(visited, url) == visited \cup {url}

\* faulty variant of urls_lock_free: the test-and-insert is not guarded
urls_lock_ignored == TRUE

\* async with urls_lock: the lock can be taken
urls_lock_free == urls_lock = 0

\* faulty variant of urls_lock_released: task i leaves the block holding the lock
urls_lock_kept(i) == i

\* async with urls_lock: the lock is released when task i leaves the block, by
\* the return or after the insert (0: nobody holds it)
urls_lock_released(i) == 0

\* faulty variant of semaphore_available: session.get is not under the semaphore
semaphore_unbounded == TRUE

\* async with semaphore: a permit can be taken
semaphore_available == semaphore > 0

\* faulty variant of within_depth_limit: off by one (<=)
within_depth_limit_inclusive(depth) == depth <= max_depth

\* crawl_url: if depth < args.max_depth
within_depth_limit(depth) == depth < max_depth

\* faulty variant of in_scope: the exclusion patterns are not consulted
in_scope_without_exclusion(u) ==
    /\ u.scheme \in {"http", "https"}
    /\ is_same_domain(u, base_url)

\* crawl_url, the loop over potential_urls: a candidate passes the scheme,
\* exclusion and same-domain tests
in_scope(u) ==
    /\ u.scheme \in {"http", "https"}
    /\ ~should_exclude(u)
    /\ is_same_domain(u, base_url)

\* crawl_url: new_urls after the loop over potential_urls, in the page's order
new_urls(potential_urls, depth) ==
    LET kept == SelectSeq(potential_urls, in_scope)
    IN  IF within_depth_limit(depth)
        THEN [i \in 1..Len(kept) |-> <<kept[i], depth + 1>>]
        ELSE <<>>

\* faulty variant of link_subdomains: only while children are still emitted
link_subdomains_within_depth(potential_urls, depth) ==
    IF within_depth_limit(depth)
    THEN {get_subdomain(u) : u \in {v \in Range(potential_urls) :
                                       in_scope(v) /\ get_subdomain(v) # None}}
    ELSE {}

\* crawl_url: the subdomains the loop over potential_urls adds, for a page
\* fetched at the given depth
link_subdomains(potential_urls, depth) ==
    {get_subdomain(u) : u \in {v \in Range(potential_urls) :
                                  in_scope(v) /\ get_subdomain(v) # None}}

\* crawl_url, status 200: what found_paths gains
paths_found(url, final_url) ==
    (IF is_same_domain(url, base_url) THEN {url} ELSE {})
    \cup (IF final_url # url /\ is_same_domain(final_url, base_url)
          THEN {final_url} ELSE {})

\* faulty variant of new_unique_urls: the children are merged unfiltered
all_new_urls(result, visited) == result

\* main: new_unique_urls = [u for u in result if u[0] not in visited_urls]
new_unique_urls(result, visited) == SelectSeq(result, LAMBDA u : u[1] \notin visited)

\* main: the merge of every result of the batch into urls_to_visit, in order
RECURSIVE merge_results(_, _, _, _)
merge_results(pending, res, i, visited) ==
    IF i > Len(batch) THEN pending
    ELSE merge_results(pending \o new_unique_urls(res[i], visited), res, i + 1, visited)

\* the links a page may list, in the order it lists them ("/a" can be listed
\* twice): first the links to the site, then links the filters drop (an excluded
\* path on a subdomain, an excluded subdomain, a scheme other than http(s),
\* another site)
CandidateSeq ==
    <<Url("https", "", "a.test", "/a"), Url("https", "api", "a.test", "/b"),
      Url("https", "", "a.test", "/a"), base_url,
      Url("https", "dev", "a.test", "/admin"), Url("https", "old", "a.test", "/"),
      Url("ftp", "files", "a.test", "/"), Url("https", "", "b.test", "/")>>

RECURSIVE SubSeq_of(_, _, _)
SubSeq_of(seq, idx, i) ==
    IF i > Len(seq) THEN <<>>
    ELSE (IF i \in idx THEN <<seq[i]>> ELSE <<>>) \o SubSeq_of(seq, idx, i + 1)

\* a page lists any of the links to the site, and none or all of the others
PageLinks ==
    {SubSeq_of(CandidateSeq, idx \cup rest, 1) :
        idx \in SUBSET {k \in 1..Len(CandidateSeq) : CandidateSeq[k] \in InDomainUrls},
        rest \in {{}, {k \in 1..Len(CandidateSeq) : CandidateSeq[k] \notin InDomainUrls}}}

\* where a redirect may end: the requested url, the subdomain's page, another site
FinalUrls(url) == {url, Url("https", "api", "a.test", "/b"), Url("https", "", "b.test", "/")}

\* outcomes of the mirror write
IoOutcomes == IF faults THEN {"ok", "open_failed", "dump_failed"} ELSE {"ok"}

\* the sink calls that may raise during a flush of buf: none (0), or any one of
\* them while the failure budget lasts
FailPoints(buf) == IF fails_left > 0 THEN 0..sink_calls(buf) ELSE {0}

NoCall ==
    [op |-> "none", io |-> "ok", called |-> FALSE, raised |-> FALSE, ret |-> 0,
     batch |-> <<>>, pre_buffer |-> <<>>, pre_file |-> NoFile,
     pre_flush_count |-> 0, pre_total_flushed |-> 0]

\* ------------------------------------------------ handler calls, as steps
\* handler.add_record(record), the mirror write ending as io
AddRecord(record, io) ==
    /\ buffer' = buffer_append(buffer, record)
    /\ buffer_file' = write_buffer_to_json(buffer', buffer_file, io)
    /\ appended' = Append(appended, record)
    /\ since_accept' = since_accept \cup {record}
    /\ last' = [NoCall EXCEPT !.op = "add_record", !.io = io,
                              !.pre_buffer = buffer, !.pre_file = buffer_file,
                              !.pre_flush_count = flush_count,
                              !.pre_total_flushed = total_flushed]
    /\ idle_ticks' = 0
    /\ UNCHANGED <<flush_count, total_flushed, delivered, fails_left, flush_attempts>>

\* crawl_url: if handler: handler.add_url_record(...)
BufferRecord(record, io) ==
    IF buffer_handler
    THEN AddRecord(record, io)
    ELSE UNCHANGED <<buffer, buffer_file, appended, since_accept, last, idle_ticks,
                     flush_count, total_flushed, delivered, fails_left, flush_attempts>>

\* the handler after flush_if_needed() or final_flush() returned r
ApplyFlush(op, r) ==
    /\ buffer' = r.buffer
    /\ buffer_file' = r.buffer_file
    /\ flush_count' = r.flush_count
    /\ total_flushed' = r.total_flushed
    /\ delivered' = delivered \cup r.accepted
    /\ fails_left' = IF r.raised THEN fails_left - 1 ELSE fails_left
    /\ since_accept' = IF r.called /\ ~r.raised THEN {} ELSE since_accept
    /\ flush_attempts' = IF r.called THEN flush_attempts + 1 ELSE flush_attempts
    /\ idle_ticks' = IF op = "flush_if_needed" /\ ~r.called /\ buffer # <<>>
                     THEN (IF idle_ticks < MaxTicks THEN idle_ticks + 1 ELSE MaxTicks)
                     ELSE 0
    /\ last' = [NoCall EXCEPT !.op = op, !.called = r.called, !.raised = r.raised,
                              !.ret = r.ret, !.batch = r.batch,
                              !.pre_buffer = buffer, !.pre_file = buffer_file,
                              !.pre_flush_count = flush_count,
                              !.pre_total_flushed = total_flushed]
    /\ UNCHANGED appended

\* ------------------------------------------------- buffer_monitor_task
\* one turn of the loop: the event is not set, flush_if_needed(), sleep(1)
MonitorIteration ==
    /\ monitor_pc = "running"
    /\ ~buffer_flush_event
    /\ \E fail_at \in FailPoints(buffer) :
          ApplyFlush("flush_if_needed",
                     flush_if_needed(buffer, buffer_file, flush_count, total_flushed, fail_at))
    /\ UNCHANGED <<job_vars, buffer_handler, faults, session, buffer_flush_event, monitor_pc, sub_iter, crawl_vars,
                   found_subdomains, main_pc>>

\* the loop finds the event set and the task returns
MonitorExit ==
    /\ monitor_pc = "running"
    /\ buffer_flush_event
    /\ monitor_pc' = "exited"
    /\ UNCHANGED <<job_vars, buffer_handler, faults, session, buffer, buffer_file, flush_count, total_flushed, delivered,
                   fails_left, buffer_flush_event, last, appended, since_accept,
                   flush_attempts, idle_ticks, sub_iter, crawl_vars, found_subdomains, main_pc>>

\* ------------------------------------------------ main, the finally block
\* if db_manager and session_id and buffer_handler: buffer_flush_event.set()
StopMonitor ==
    /\ main_pc = "finally"
    /\ buffer_handler
    /\ buffer_flush_event' = TRUE
    /\ main_pc' = "await_monitor"
    /\ UNCHANGED <<job_vars, buffer_handler, faults, session, buffer, buffer_file, flush_count, total_flushed, delivered,
                   fails_left, monitor_pc, last, appended, since_accept,
                   flush_attempts, idle_ticks, sub_iter, crawl_vars, found_subdomains>>

\* faulty variant of monitor_task_done: main does not wait for the task
monitor_not_awaited == TRUE

\* await monitor_task returns once buffer_monitor_task has returned
monitor_task_done == monitor_pc = "exited"

\* await monitor_task
AwaitMonitor ==
    /\ main_pc = "await_monitor"
    /\ monitor_task_done
    /\ main_pc' = "add_subdomains"
    /\ sub_iter' = found_subdomains
    /\ UNCHANGED <<job_vars, buffer_handler, faults, session, buffer, buffer_file, flush_count, total_flushed, delivered,
                   fails_left, buffer_flush_event, monitor_pc, last, appended,
                   since_accept, flush_attempts, idle_ticks, crawl_vars, found_subdomains>>

\* for subdomain in found_subdomains: buffer_handler.add_subdomain_record(...)
AddSubdomainRecord ==
    /\ main_pc = "add_subdomains"
    /\ \E subdomain \in sub_iter, io \in IoOutcomes :
          /\ AddRecord(subdomain_record(subdomain), io)
          /\ sub_iter' = sub_iter \ {subdomain}
    /\ UNCHANGED <<job_vars, buffer_handler, faults, session, buffer_flush_event, monitor_pc, crawl_vars, found_subdomains, main_pc>>

\* remaining = buffer_handler.final_flush()
FinalFlush ==
    /\ main_pc = "add_subdomains"
    /\ sub_iter = {}
    /\ \E fail_at \in FailPoints(buffer) :
          ApplyFlush("final_flush",
                     final_flush(buffer, buffer_file, flush_count, total_flushed, fail_at))
    /\ main_pc' = "complete_session"
    /\ UNCHANGED <<job_vars, buffer_handler, faults, session, buffer_flush_event, monitor_pc, sub_iter, crawl_vars, found_subdomains>>

\* CrawlMetrics(...) as main builds it in the finally block
crawl_metrics ==
    [saved |-> TRUE,
     urls_visited |-> Cardinality(visited_urls),
     subdomains_found |-> Cardinality(found_subdomains),
     paths_found |-> Cardinality(found_paths),
     completed_normally |-> ~shutdown_flag]

\* status = 'interrupted' if shutdown_flag else 'completed', flag being the
\* value of shutdown_flag when this line reads it
final_status(flag) == IF flag THEN "interrupted" ELSE "completed"

\* signal.signal(signal.SIGINT, signal_handler): the handler runs between any
\* two bytecodes of main, so shutdown_flag, read for completed_normally, may
\* have been set by the time it is read again for status
flag_at_status == IF shutdown_flag THEN {TRUE} ELSE BOOLEAN

\* complete_session: the rows after the update and the insert are committed;
\* when the database raises the exception is logged and the rows stay as they were
complete_session(row, metrics, status, ok) ==
    IF ok THEN [status |-> status, metrics |-> metrics] ELSE row

\* db_manager.complete_session(session_id, crawl_metrics, status)
CompleteSession ==
    /\ main_pc = "complete_session"
    /\ \E ok \in (IF fails_left > 0 THEN BOOLEAN ELSE {TRUE}), flag \in flag_at_status :
          /\ session' = complete_session(session, crawl_metrics, final_status(flag), ok)
          /\ shutdown_flag' = flag
          /\ fails_left' = IF ok THEN fails_left ELSE fails_left - 1
    /\ main_pc' = "done"
    /\ UNCHANGED <<job_vars, buffer_handler, faults, buffer, buffer_file, flush_count, total_flushed, delivered,
                   buffer_flush_event, monitor_pc, last, appended, since_accept,
                   flush_attempts, idle_ticks, sub_iter, found_subdomains,
                   visited_urls, found_paths, urls_lock, urls_to_visit, batch, task_pc,
                   results, semaphore, pbar, get_count, depth_cut, cut_subdomains,
                   in_flight_at_cancel, merge_dropped, dropped_links>>

\* --------------------------------------------------------- signal_handler
\* SIGINT while main runs: shutdown_flag = True
Interrupt ==
    /\ main_pc \in {"loop", "gather", "finally", "await_monitor", "add_subdomains",
                    "complete_session"}
    /\ ~shutdown_flag
    /\ shutdown_flag' = TRUE
    /\ in_flight_at_cancel' =
          {batch[i][1] : i \in {k \in 1..Len(batch) :
              task_pc[k] \in {"sleep", "wait_semaphore", "get", "read_body"}}}
    /\ UNCHANGED <<job_vars, buffer_handler, faults, session, buf_vars, found_subdomains, main_pc, visited_urls, found_paths,
                   urls_lock, urls_to_visit, batch, task_pc, results, semaphore, pbar,
                   get_count, depth_cut, cut_subdomains, merge_dropped, dropped_links>>

\* ------------------------------------------------------------- crawl_url
ReturnFrom(i, result) ==
    /\ task_pc' = [task_pc EXCEPT ![i] = "done"]
    /\ results' = [results EXCEPT ![i] = result]

\* faulty variant of cancelled_at_start: the flag is not tested
start_not_tested == FALSE

\* crawl_url: if shutdown_flag (the first statement of the worker)
cancelled_at_start == shutdown_flag

\* if shutdown_flag: return []   (else go on to async with urls_lock)
TaskStart(i) ==
    /\ main_pc = "gather"
    /\ task_pc[i] = "start"
    /\ IF cancelled_at_start
       THEN ReturnFrom(i, <<>>)
       ELSE task_pc' = [task_pc EXCEPT ![i] = "wait_urls_lock"] /\ UNCHANGED results
    /\ UNCHANGED <<job_vars, buffer_handler, faults, session, buf_vars, found_subdomains, main_pc, visited_urls, found_paths,
                   urls_lock, shutdown_flag, urls_to_visit, batch, semaphore, pbar, get_count, depth_cut, cut_subdomains, in_flight_at_cancel, merge_dropped, dropped_links>>

\* async with urls_lock: the lock is acquired
AcquireUrlsLock(i) ==
    /\ task_pc[i] = "wait_urls_lock"
    /\ urls_lock_free
    /\ urls_lock' = i
    /\ task_pc' = [task_pc EXCEPT ![i] = "test_visited"]
    /\ UNCHANGED <<job_vars, buffer_handler, faults, session, buf_vars, found_subdomains, main_pc, visited_urls, found_paths,
                   shutdown_flag, urls_to_visit, batch, results, semaphore, pbar, get_count, depth_cut, cut_subdomains, in_flight_at_cancel, merge_dropped, dropped_links>>

\* if url in visited_urls: return []   (the lock is released on the way out)
TestVisited(i) ==
    /\ task_pc[i] = "test_visited"
    /\ IF batch[i][1] \in visited_urls
       THEN ReturnFrom(i, <<>>) /\ urls_lock' = urls_lock_released(i)
       ELSE /\ task_pc' = [task_pc EXCEPT ![i] = "insert_visited"]
            /\ UNCHANGED <<results, urls_lock>>
    /\ UNCHANGED <<job_vars, buffer_handler, faults, session, buf_vars, found_subdomains, main_pc, visited_urls, found_paths,
                   shutdown_flag, urls_to_visit, batch, semaphore, pbar, get_count, depth_cut, cut_subdomains, in_flight_at_cancel, merge_dropped, dropped_links>>

\* visited_urls.add(url), then the lock is released
InsertVisited(i) ==
    /\ task_pc[i] = "insert_visited"
    /\ visited_urls' = visited_add(visited_urls, batch[i][1])
    /\ urls_lock' = urls_lock_released(i)
    /\ task_pc' = [task_pc EXCEPT ![i] = "sleep"]
    /\ UNCHANGED <<job_vars, buffer_handler, faults, session, buf_vars, found_subdomains, main_pc, found_paths,
                   shutdown_flag, urls_to_visit, batch, results, semaphore, pbar, get_count, depth_cut, cut_subdomains, in_flight_at_cancel, merge_dropped, dropped_links>>

\* await asyncio.sleep(args.rate_limit) returns
RateLimitSleep(i) ==
    /\ task_pc[i] = "sleep"
    /\ task_pc' = [task_pc EXCEPT ![i] = "wait_semaphore"]
    /\ UNCHANGED <<job_vars, buffer_handler, faults, session, buf_vars, found_subdomains, main_pc, visited_urls, found_paths,
                   urls_lock, shutdown_flag, urls_to_visit, batch, results,
                   semaphore, pbar, get_count, depth_cut, cut_subdomains, in_flight_at_cancel, merge_dropped, dropped_links>>

\* async with semaphore: a permit is taken and session.get is issued
AcquireSemaphore(i) ==
    /\ task_pc[i] = "wait_semaphore"
    /\ semaphore_available
    /\ semaphore' = semaphore - 1
    /\ get_count' = [get_count EXCEPT ![batch[i][1]] = @ + 1]
    /\ task_pc' = [task_pc EXCEPT ![i] = "get"]
    /\ UNCHANGED <<job_vars, buffer_handler, faults, session, buf_vars, found_subdomains, main_pc, visited_urls, found_paths,
                   urls_lock, shutdown_flag, urls_to_visit, batch, results, pbar, depth_cut, cut_subdomains, in_flight_at_cancel, merge_dropped, dropped_links>>

\* faulty variant of semaphore_release: the permit is not given back
semaphore_kept(n) == n

\* the task leaves the block async with semaphore: the permit is released
semaphore_release(n) == n + 1

\* faulty variant of pbar_update: the counter is left as it was
pbar_not_updated(n) == n

\* finally: pbar.update(1)
pbar_update(n) == n + 1

\* the task leaves async with semaphore, runs finally: pbar.update(1), returns
Finish(i, result) ==
    /\ ReturnFrom(i, result)
    /\ semaphore' = semaphore_release(semaphore)
    /\ pbar' = pbar_update(pbar)

\* session.get answers with status 200: the url record is buffered, found_paths
\* and found_subdomains take the url and the final url; the body is read next
Response200(i) ==
    /\ task_pc[i] = "get"
    /\ \E final_url \in FinalUrls(batch[i][1]), io \in IoOutcomes :
          /\ BufferRecord(url_record(batch[i][1], batch[i][2], 200, ""), io)
          /\ found_paths' = found_paths \cup paths_found(batch[i][1], final_url)
          /\ found_subdomains' =
                found_subdomains \cup (IF get_subdomain(final_url) # None
                                       THEN {get_subdomain(final_url)} ELSE {})
    /\ task_pc' = [task_pc EXCEPT ![i] = "read_body"]
    /\ UNCHANGED <<job_vars, buffer_handler, faults, session, buffer_flush_event, monitor_pc, sub_iter, main_pc, visited_urls,
                   urls_lock, shutdown_flag, urls_to_visit, batch, results,
                   semaphore, pbar, get_count, depth_cut, cut_subdomains, in_flight_at_cancel, merge_dropped, dropped_links>>

\* the body is read and its links processed (none of them once shutdown_flag is
\* set: the loop over potential_urls breaks)
ProcessLinks(i) ==
    /\ task_pc[i] = "read_body"
    /\ \E page \in PageLinks :
          LET potential_urls == IF shutdown_flag THEN <<>> ELSE page
          IN  /\ found_subdomains' =
                    found_subdomains \cup link_subdomains(potential_urls, batch[i][2])
              /\ dropped_links' =
                    (dropped_links \/ \E v \in Range(potential_urls) : ~in_scope(v))
              /\ cut_subdomains' =
                    IF within_depth_limit(batch[i][2]) THEN cut_subdomains
                    ELSE cut_subdomains \cup
                         {get_subdomain(u) : u \in {v \in Range(potential_urls) :
                                                       in_scope(v) /\ get_subdomain(v) # None}}
              /\ depth_cut' = (depth_cut \/ (/\ ~within_depth_limit(batch[i][2])
                                             /\ SelectSeq(potential_urls, in_scope) # <<>>))
              /\ Finish(i, new_urls(potential_urls, batch[i][2]))
    /\ UNCHANGED <<job_vars, buffer_handler, faults, session, buf_vars, main_pc, visited_urls, found_paths, urls_lock,
                   shutdown_flag, urls_to_visit, batch, get_count,
                   in_flight_at_cancel, merge_dropped>>

\* reading the body raises (asyncio.TimeoutError, aiohttp.ClientError or another
\* exception): the except clause buffers an error record for the url
BodyError(i) ==
    /\ task_pc[i] = "read_body"
    /\ \E error_message \in {"Request timeout", "Client error", "Error"},
          io \in IoOutcomes :
          BufferRecord(url_record(batch[i][1], batch[i][2], 0, error_message), io)
    /\ Finish(i, <<>>)
    /\ UNCHANGED <<job_vars, buffer_handler, faults, session, buffer_flush_event, monitor_pc, sub_iter, found_subdomains,
                   main_pc, visited_urls, found_paths, urls_lock, shutdown_flag,
                   urls_to_visit, batch, get_count, depth_cut, cut_subdomains, in_flight_at_cancel, merge_dropped, dropped_links>>

\* session.get answers with a status other than 200: the record is buffered
ResponseNon200(i) ==
    /\ task_pc[i] = "get"
    /\ \E io \in IoOutcomes :
          BufferRecord(url_record(batch[i][1], batch[i][2], 404, ""), io)
    /\ Finish(i, <<>>)
    /\ UNCHANGED <<job_vars, buffer_handler, faults, session, buffer_flush_event, monitor_pc, sub_iter, found_subdomains,
                   main_pc, visited_urls, found_paths, urls_lock, shutdown_flag,
                   urls_to_visit, batch, get_count, depth_cut, cut_subdomains, in_flight_at_cancel, merge_dropped, dropped_links>>

\* session.get raises asyncio.TimeoutError, aiohttp.ClientError or another
\* exception: the except clause buffers an error record
RequestError(i) ==
    /\ task_pc[i] = "get"
    /\ \E error_message \in {"Request timeout", "Client error", "Error"},
          io \in IoOutcomes :
          BufferRecord(url_record(batch[i][1], batch[i][2], 0, error_message), io)
    /\ Finish(i, <<>>)
    /\ UNCHANGED <<job_vars, buffer_handler, faults, session, buffer_flush_event, monitor_pc, sub_iter, found_subdomains,
                   main_pc, visited_urls, found_paths, urls_lock, shutdown_flag,
                   urls_to_visit, batch, get_count, depth_cut, cut_subdomains, in_flight_at_cancel, merge_dropped, dropped_links>>

\* ---------------------------------------------------- main, the crawl loop
Min(a, b) == IF a < b THEN a ELSE b

\* faulty variant of batch_size: one entry per worker
batch_size_per_worker(pending) == Min(workers, Len(pending))

\* batch_size = min(args.workers * 2, len(urls_to_visit))
batch_size(pending) == Min(workers * 2, Len(pending))

\* faulty variant of loop_condition: the flag is not consulted
loop_condition_ignoring_flag == urls_to_visit # <<>>

\* faulty variant of loop_condition: the loop stops at the first failed fetch
loop_condition_until_error ==
    /\ urls_to_visit # <<>> /\ ~shutdown_flag
    /\ \A k \in 1..Len(appended) :
          appended[k].type = "url" => appended[k].status_code = 200

\* while urls_to_visit and not shutdown_flag
loop_condition == urls_to_visit # <<>> /\ ~shutdown_flag

\* faulty variant of pending_after_draw: the batch is read but not popped
pending_kept(pending) == pending

\* batch.append(urls_to_visit.pop(0)), batch_size times: what is left of the list
pending_after_draw(pending) ==
    SubSeq(pending, batch_size(pending) + 1, Len(pending))

\* the loop body up to gather: draw the batch, create one task per entry
DrawBatch ==
    /\ main_pc = "loop"
    /\ loop_condition
    /\ batch' = SubSeq(urls_to_visit, 1, batch_size(urls_to_visit))
    /\ urls_to_visit' = pending_after_draw(urls_to_visit)
    /\ task_pc' = [i \in Tasks |-> IF i <= batch_size(urls_to_visit) THEN "start" ELSE "idle"]
    /\ results' = [i \in Tasks |-> <<>>]
    /\ main_pc' = "gather"
    /\ merge_dropped' = FALSE
    /\ UNCHANGED dropped_links
    /\ UNCHANGED <<job_vars, buffer_handler, faults, session, buf_vars, found_subdomains, visited_urls, found_paths, urls_lock,
                   shutdown_flag, semaphore, pbar, get_count, depth_cut, cut_subdomains, in_flight_at_cancel>>

\* results = await asyncio.gather(*tasks) returned: every result is filtered
\* against visited_urls and appended to urls_to_visit
MergeResults ==
    /\ main_pc = "gather"
    /\ \A i \in 1..Len(batch) : task_pc[i] = "done"
    /\ urls_lock_free
    /\ urls_to_visit' = merge_results(urls_to_visit, results, 1, visited_urls)
    /\ batch' = <<>>
    /\ task_pc' = [i \in Tasks |-> "idle"]
    /\ results' = [i \in Tasks |-> <<>>]
    /\ main_pc' = "loop"
    /\ merge_dropped' = \E i \in 1..Len(batch) : \E k \in 1..Len(results[i]) :
                             results[i][k][1] \in visited_urls
    /\ in_flight_at_cancel' = {}
    /\ dropped_links' = FALSE
    /\ UNCHANGED <<job_vars, buffer_handler, faults, session, buf_vars, found_subdomains, visited_urls, found_paths, urls_lock,
                   shutdown_flag, semaphore, pbar, get_count, depth_cut, cut_subdomains>>

\* the while condition fails: the loop ends and the finally block starts
ExitLoop ==
    /\ main_pc = "loop"
    /\ ~loop_condition
    /\ main_pc' = "finally"
    /\ merge_dropped' = FALSE
    /\ UNCHANGED dropped_links
    /\ UNCHANGED <<job_vars, buffer_handler, faults, session, buf_vars, found_subdomains, visited_urls, found_paths, urls_lock,
                   shutdown_flag, urls_to_visit, batch, task_pc, results, semaphore, pbar,
                   get_count, depth_cut, cut_subdomains, in_flight_at_cancel>>

\* ------------------------------------------------- main.py, the job surface
\* the jobs a client creates
JobIds == {"A", "B"}

\* class JobStatus, and "none" for an id no job was created for yet
JobStatus == {"queued", "running", "completed", "failed", "cancelled"}

\* job_data["results"] = None
NoResults ==
    [present |-> FALSE, visited_urls |-> {}, subdomains |-> {}, paths |-> {},
     metrics |-> FALSE, partial |-> FALSE]

\* create_crawl_job: job_data
new_job == [status |-> "queued", cancelled |-> FALSE, results |-> NoResults, error |-> FALSE]

NoJob == [status |-> "none", cancelled |-> FALSE, results |-> NoResults, error |-> FALSE]

\* CrawlerState.__init__
new_crawler_state ==
    [visited_urls |-> {}, found_subdomains |-> {}, found_paths |-> {},
     shutdown_flag |-> FALSE]

\* faulty variant of CrawlerState: one module-level state for every job
CrawlerState_shared(job_id) == "A"

\* run_crawl_job: state = CrawlerState(job_id), the object the job's run and its
\* tasks are handed
CrawlerState(job_id) == job_id

\* run_crawl_job, the success path: job["results"], with the metrics
job_results(state) ==
    [present |-> TRUE, visited_urls |-> state.visited_urls,
     subdomains |-> state.found_subdomains, paths |-> state.found_paths,
     metrics |-> TRUE, partial |-> FALSE]

\* run_crawl_job, the except clauses: partial results, stats only
partial_results(state) ==
    [present |-> TRUE, visited_urls |-> state.visited_urls,
     subdomains |-> state.found_subdomains, paths |-> state.found_paths,
     metrics |-> FALSE, partial |-> TRUE]

\* what a page of the site lists, for the jobs
ApiPageLinks ==
    {<<>>, <<Url("https", "", "a.test", "/a"), base_url, Url("https", "api", "a.test", "/b")>>}

\* run_crawl_job: the merge of every result of the batch into urls_to_visit
RECURSIVE merge_api_results(_, _, _, _, _)
merge_api_results(pending, res, n, i, visited) ==
    IF i > n THEN pending
    ELSE merge_api_results(pending \o new_unique_urls(res[i], visited), res, n, i + 1, visited)

\* POST /api/v1/crawl: the job is stored as queued and run_crawl_job is scheduled
CreateJob(j) ==
    /\ jobs[j].status = "none"
    /\ jobs' = [jobs EXCEPT ![j] = new_job]
    /\ active_jobs' = active_jobs \cup {j}
    /\ run_pc' = [run_pc EXCEPT ![j] = "scheduled"]
    /\ UNCHANGED <<completed_jobs, crawler_state, api_urls_to_visit, api_batch,
                   api_task_pc, api_results, api_semaphore, api_fetched>>

\* faulty variant of active_jobs_del: the job stays in active_jobs
active_jobs_kept(registry, job_id) == registry

\* del active_jobs[job_id]
active_jobs_del(registry, job_id) == registry \ {job_id}

\* DELETE /api/v1/jobs: completed_jobs.clear(); the job objects live on in the
\* runs that hold them
ClearCompletedJobs ==
    /\ completed_jobs' = {}
    /\ UNCHANGED <<active_jobs, jobs, crawler_state, run_pc, api_urls_to_visit, api_batch,
                   api_task_pc, api_results, api_semaphore, api_fetched>>

\* DELETE /api/v1/jobs/{job_id} for a job in active_jobs (job["task"] is never
\* set, so no task is cancelled)
cancel_job(job) == [job EXCEPT !.cancelled = TRUE, !.status = "cancelled"]

CancelJob(j) ==
    /\ j \in active_jobs
    /\ jobs' = [jobs EXCEPT ![j] = cancel_job(jobs[j])]
    /\ completed_jobs' = completed_jobs \cup {j}
    /\ active_jobs' = active_jobs_del(active_jobs, j)
    /\ UNCHANGED <<crawler_state, run_pc, api_urls_to_visit, api_batch,
                   api_task_pc, api_results, api_semaphore, api_fetched>>

\* the three statuses get_job_results serves results for
TerminalStatus == {"completed", "failed", "cancelled"}

\* faulty variant of get_job_results: the status is not tested
get_job_results_any_status(job_id) ==
    IF job_id \in active_jobs \/ job_id \in completed_jobs
    THEN [code |-> 200, payload |-> "results", results |-> jobs[job_id].results]
    ELSE [code |-> 404, payload |-> "none", results |-> NoResults]

\* GET /api/v1/jobs/{job_id}/results: the response, by its HTTP status code, the
\* key the results are returned under ("none": an HTTPException, no payload) and
\* the value of job.get("results", {})
get_job_results(job_id) ==
    IF job_id \in active_jobs \/ job_id \in completed_jobs
    THEN LET job == jobs[job_id]
         IN  IF job.status \notin TerminalStatus
             THEN [code |-> 400, payload |-> "none", results |-> NoResults]
             ELSE IF job.status \in {"failed", "cancelled"}
                  THEN [code |-> 200, payload |-> "partial_results", results |-> job.results]
                  ELSE [code |-> 200, payload |-> "results", results |-> job.results]
    ELSE [code |-> 404, payload |-> "none", results |-> NoResults]

\* run_crawl_job: the batch is drawn and one crawl_url_api task created per entry
DrawApiBatch(j, pending) ==
    /\ api_batch' = [api_batch EXCEPT ![j] = SubSeq(pending, 1, batch_size(pending))]
    /\ api_urls_to_visit' = [api_urls_to_visit EXCEPT ![j] = pending_after_draw(pending)]
    /\ api_task_pc' = [api_task_pc EXCEPT ![j] =
          [i \in Tasks |-> IF i <= batch_size(pending) THEN "start" ELSE "idle"]]
    /\ api_results' = [api_results EXCEPT ![j] = [i \in Tasks |-> <<>>]]

\* run_crawl_job leaves the job in completed_jobs with the status and results given
StoreJob(j, status, job_res, error) ==
    /\ jobs' = [jobs EXCEPT ![j] = [@ EXCEPT !.status = status, !.results = job_res,
                                             !.error = error]]
    /\ completed_jobs' = completed_jobs \cup {j}
    /\ active_jobs' = active_jobs_del(active_jobs, j)
    /\ run_pc' = [run_pc EXCEPT ![j] = "returned"]

\* faulty variant of job_absent: the run starts whatever the lookup returned
job_absent_ignored(job_id) == FALSE

\* run_crawl_job: job = active_jobs.get(job_id); if not job
job_absent(job_id) == job_id \notin active_jobs

\* run_crawl_job from its start to the first await: the job is looked up in
\* active_jobs (gone: return), marked running, the url normalised (a url that
\* urlparse rejects raises: the job is stored as failed) and the first batch
\* drawn and dispatched
RunCrawlJob(j) ==
    /\ run_pc[j] = "scheduled"
    /\ IF job_absent(j)
       THEN /\ run_pc' = [run_pc EXCEPT ![j] = "returned"]
            /\ UNCHANGED <<active_jobs, completed_jobs, jobs, api_urls_to_visit,
                           api_batch, api_task_pc, api_results, api_semaphore>>
       ELSE \E url_ok \in BOOLEAN :
              IF url_ok
              THEN /\ jobs' = [jobs EXCEPT ![j] = [@ EXCEPT !.status = "running"]]
                   /\ api_semaphore' = [api_semaphore EXCEPT ![j] = workers]
                   /\ DrawApiBatch(j, << <<base_url, 0>> >>)
                   /\ run_pc' = [run_pc EXCEPT ![j] = "gather"]
                   /\ UNCHANGED <<active_jobs, completed_jobs>>
              ELSE /\ StoreJob(j, "failed", partial_results(crawler_state[CrawlerState(j)]), TRUE)
                   /\ UNCHANGED <<api_urls_to_visit, api_batch, api_task_pc,
                                  api_results, api_semaphore>>
    /\ UNCHANGED <<crawler_state, api_fetched>>

ApiReturnFrom(j, i, result) ==
    /\ api_task_pc' = [api_task_pc EXCEPT ![j][i] = "done"]
    /\ api_results' = [api_results EXCEPT ![j][i] = result]

\* crawl_url_api up to its first await: the flag, the test-and-insert under
\* state.urls_lock (never contended: no await inside it)
ApiTaskStart(j, i) ==
    /\ run_pc[j] = "gather"
    /\ api_task_pc[j][i] = "start"
    /\ LET s == CrawlerState(j)
           url == api_batch[j][i][1]
       IN  IF crawler_state[s].shutdown_flag \/ url \in crawler_state[s].visited_urls
           THEN ApiReturnFrom(j, i, <<>>) /\ UNCHANGED crawler_state
           ELSE /\ crawler_state' = [crawler_state EXCEPT ![s].visited_urls = visited_add(@, url)]
                /\ api_task_pc' = [api_task_pc EXCEPT ![j][i] = "sleep"]
                /\ UNCHANGED api_results
    /\ UNCHANGED <<active_jobs, completed_jobs, jobs, run_pc, api_urls_to_visit,
                   api_batch, api_semaphore, api_fetched>>

\* await asyncio.sleep(config.rate_limit) returns
ApiRateLimitSleep(j, i) ==
    /\ api_task_pc[j][i] = "sleep"
    /\ api_task_pc' = [api_task_pc EXCEPT ![j][i] = "wait_semaphore"]
    /\ UNCHANGED <<active_jobs, completed_jobs, jobs, crawler_state, run_pc,
                   api_urls_to_visit, api_batch, api_results, api_semaphore, api_fetched>>

\* async with semaphore: a permit is taken and session.get is issued
ApiAcquireSemaphore(j, i) ==
    /\ api_task_pc[j][i] = "wait_semaphore"
    /\ api_semaphore[j] > 0
    /\ api_semaphore' = [api_semaphore EXCEPT ![j] = @ - 1]
    /\ api_fetched' = [api_fetched EXCEPT ![j] = @ \cup {api_batch[j][i][1]}]
    /\ api_task_pc' = [api_task_pc EXCEPT ![j][i] = "get"]
    /\ UNCHANGED <<active_jobs, completed_jobs, jobs, crawler_state, run_pc,
                   api_urls_to_visit, api_batch, api_results>>

\* status 200: found_paths and found_subdomains take the url and the final url
ApiResponse200(j, i) ==
    /\ api_task_pc[j][i] = "get"
    /\ \E final_url \in FinalUrls(api_batch[j][i][1]) :
          crawler_state' = [crawler_state EXCEPT
              ![CrawlerState(j)].found_paths =
                  @ \cup paths_found(api_batch[j][i][1], final_url),
              ![CrawlerState(j)].found_subdomains =
                  @ \cup (IF get_subdomain(final_url) # None
                          THEN {get_subdomain(final_url)} ELSE {})]
    /\ api_task_pc' = [api_task_pc EXCEPT ![j][i] = "read_body"]
    /\ UNCHANGED <<active_jobs, completed_jobs, jobs, run_pc, api_urls_to_visit,
                   api_batch, api_results, api_semaphore, api_fetched>>

\* the body is read, its links processed, the permit released, new_urls returned
ApiProcessLinks(j, i) ==
    /\ api_task_pc[j][i] = "read_body"
    /\ \E page \in ApiPageLinks :
          LET potential_urls ==
                  IF crawler_state[CrawlerState(j)].shutdown_flag THEN <<>> ELSE page
          IN  /\ crawler_state' = [crawler_state EXCEPT
                    ![CrawlerState(j)].found_subdomains =
                        @ \cup link_subdomains(potential_urls, api_batch[j][i][2])]
              /\ ApiReturnFrom(j, i, new_urls(potential_urls, api_batch[j][i][2]))
    /\ api_semaphore' = [api_semaphore EXCEPT ![j] = @ + 1]
    /\ UNCHANGED <<active_jobs, completed_jobs, jobs, run_pc, api_urls_to_visit,
                   api_batch, api_fetched>>

\* a status other than 200, or asyncio.TimeoutError, aiohttp.ClientError or
\* another exception from the request or the body: nothing is recorded, the
\* permit is released and new_urls (still empty) returned
ApiRequestFailed(j, i) ==
    /\ api_task_pc[j][i] \in {"get", "read_body"}
    /\ ApiReturnFrom(j, i, <<>>)
    /\ api_semaphore' = [api_semaphore EXCEPT ![j] = @ + 1]
    /\ UNCHANGED <<active_jobs, completed_jobs, jobs, crawler_state, run_pc,
                   api_urls_to_visit, api_batch, api_fetched>>

\* run_crawl_job after gather: the merge of the results into urls_to_visit
api_merged(j) ==
    merge_api_results(api_urls_to_visit[j], api_results[j], Len(api_batch[j]), 1,
                      crawler_state[CrawlerState(j)].visited_urls)

ApiGathered(j) ==
    /\ run_pc[j] = "gather"
    /\ \A i \in 1..Len(api_batch[j]) : api_task_pc[j][i] = "done"

\* gather returned, the results are merged, the while test passes and the job
\* is not cancelled: the next batch is drawn and dispatched
RunNextBatch(j) ==
    /\ ApiGathered(j)
    /\ api_merged(j) # <<>> /\ ~crawler_state[CrawlerState(j)].shutdown_flag
    /\ ~jobs[j].cancelled
    /\ DrawApiBatch(j, api_merged(j))
    /\ UNCHANGED <<active_jobs, completed_jobs, jobs, crawler_state, run_pc,
                   api_semaphore, api_fetched>>

\* gather returned, the results are merged and the loop ends, by the while test
\* or by the break after state.shutdown_flag = True when job["_cancelled"] is
\* found set; the results are stored and the job marked completed
RunFinish(j) ==
    /\ ApiGathered(j)
    /\ LET s == CrawlerState(j)
           observed == /\ api_merged(j) # <<>> /\ ~crawler_state[s].shutdown_flag
                       /\ jobs[j].cancelled
       IN  /\ api_merged(j) = <<>> \/ crawler_state[s].shutdown_flag \/ jobs[j].cancelled
           /\ crawler_state' = [crawler_state EXCEPT ![s].shutdown_flag = @ \/ observed]
           /\ StoreJob(j, "completed", job_results(crawler_state[s]), jobs[j].error)
    /\ api_urls_to_visit' = [api_urls_to_visit EXCEPT ![j] = api_merged(j)]
    /\ api_batch' = [api_batch EXCEPT ![j] = <<>>]
    /\ api_task_pc' = [api_task_pc EXCEPT ![j] = [i \in Tasks |-> "idle"]]
    /\ api_results' = [api_results EXCEPT ![j] = [i \in Tasks |-> <<>>]]
    /\ UNCHANGED <<api_semaphore, api_fetched>>

InitJobs ==
    /\ active_jobs = {}
    /\ completed_jobs = {}
    /\ jobs = [j \in JobIds |-> NoJob]
    /\ crawler_state = [s \in JobIds |-> new_crawler_state]
    /\ run_pc = [j \in JobIds |-> "none"]
    /\ api_urls_to_visit = [j \in JobIds |-> <<>>]
    /\ api_batch = [j \in JobIds |-> <<>>]
    /\ api_task_pc = [j \in JobIds |-> [i \in Tasks |-> "idle"]]
    /\ api_results = [j \in JobIds |-> [i \in Tasks |-> <<>>]]
    /\ api_semaphore = [j \in JobIds |-> 0]
    /\ api_fetched = [j \in JobIds |-> {}]

\* ------------------------------------------------------------------ Spec
SinkFailureBudgets == 0..MaxSinkFailures

\* CrawlMetrics(): the defaults of the dataclass, no row saved yet
NoMetrics ==
    [saved |-> FALSE, urls_visited |-> 0, subdomains_found |-> 0, paths_found |-> 0,
     completed_normally |-> TRUE]

\* start_session: the row is inserted with status 'running'
start_session == [status |-> "running", metrics |-> NoMetrics]

\* CrawlBufferHandler.__init__
InitHandlerFields ==
    /\ buffer = <<>>
    /\ buffer_file = NoFile
    /\ flush_count = 0
    /\ total_flushed = 0
    /\ delivered = {}
    /\ buffer_flush_event = FALSE
    /\ last = NoCall
    /\ appended = <<>>
    /\ since_accept = {}
    /\ flush_attempts = 0
    /\ idle_ticks = 0
    /\ sub_iter = {}

\* main built the handler and started buffer_monitor_task
InitHandler ==
    /\ InitHandlerFields
    /\ buffer_handler = TRUE
    /\ monitor_pc = "running"

InitCrawl ==
    /\ visited_urls = {}
    /\ found_paths = {}
    /\ found_subdomains = {}
    /\ urls_lock = 0
    /\ shutdown_flag = FALSE
    /\ urls_to_visit = << <<base_url, 0>> >>
    /\ batch = <<>>
    /\ task_pc = [i \in Tasks |-> "idle"]
    /\ results = [i \in Tasks |-> <<>>]
    /\ semaphore = workers
    /\ pbar = 0
    /\ get_count = [u \in Candidates |-> 0]
    /\ depth_cut = FALSE
    /\ cut_subdomains = {}
    /\ in_flight_at_cancel = {}
    /\ merge_dropped = FALSE
    /\ dropped_links = FALSE

\* a CLI session with --db whose sink and disk are healthy
Init ==
    /\ InitHandler /\ InitCrawl
    /\ main_pc = "loop"
    /\ fails_left = 0
    /\ faults = FALSE
    /\ session = start_session
    /\ InitJobs

TaskStep ==
    \E i \in Tasks :
        \/ TaskStart(i)
        \/ AcquireUrlsLock(i)
        \/ TestVisited(i)
        \/ InsertVisited(i)
        \/ RateLimitSleep(i)
        \/ AcquireSemaphore(i)
        \/ Response200(i)
        \/ ProcessLinks(i)
        \/ BodyError(i)
        \/ ResponseNon200(i)
        \/ RequestError(i)

Finalisation ==
    \/ StopMonitor
    \/ AwaitMonitor
    \/ AddSubdomainRecord
    \/ FinalFlush
    \/ CompleteSession

Next ==
    \/ DrawBatch
    \/ TaskStep
    \/ MergeResults
    \/ ExitLoop
    \/ Interrupt
    \/ MonitorIteration
    \/ MonitorExit
    \/ Finalisation

Spec == Init /\ [][Next]_vars

\* the event loop runs every coroutine that is ready, and every request that was
\* issued is answered (with a response, an error or the timeout)
LiveSpec ==
    /\ Init /\ [][Next]_vars
    /\ WF_vars(DrawBatch)
    /\ WF_vars(TaskStep)
    /\ WF_vars(MergeResults)
    /\ WF_vars(ExitLoop)

\* ------------------------------------------------------------- StartSpec
\* no row in crawl_sessions
NoSession == [status |-> "none", metrics |-> NoMetrics]

\* main, if args.database: the database manager, the session row, the handler and
\* the monitor are set up. An exception anywhere in that block is printed as a
\* warning and db_manager is set to None: raised before start_session committed
\* there is no session row ("no_session"), raised by CrawlBufferHandler(...) (its
\* logging.FileHandler opens results/<id>.log before the directory is made) the
\* row stays as inserted ("no_handler"). Either way main goes on to the crawl.
StartDatabase ==
    /\ main_pc = "start"
    /\ \E outcome \in {"ok", "no_session", "no_handler"} :
          /\ session' = IF outcome = "no_session" THEN session ELSE start_session
          /\ buffer_handler' = (outcome = "ok")
          /\ monitor_pc' = IF outcome = "ok" THEN "running" ELSE monitor_pc
    /\ main_pc' = "loop"
    /\ UNCHANGED <<job_vars, faults, buffer, buffer_file, flush_count, total_flushed,
                   delivered, fails_left, buffer_flush_event, last, appended,
                   since_accept, flush_attempts, idle_ticks, sub_iter, crawl_vars,
                   found_subdomains>>

\* the finally block when db_manager, session_id or buffer_handler is None:
\* nothing is saved
SkipDatabase ==
    /\ main_pc = "finally"
    /\ ~buffer_handler
    /\ main_pc' = "done"
    /\ UNCHANGED <<job_vars, buffer_handler, faults, session, buf_vars, crawl_vars,
                   found_subdomains>>

\* a CLI run with --db from the start of main: nothing is set up yet
StartInit ==
    /\ InitHandlerFields /\ InitCrawl /\ InitJobs
    /\ buffer_handler = FALSE
    /\ monitor_pc = "none"
    /\ main_pc = "start"
    /\ fails_left = 0
    /\ faults = FALSE
    /\ session = NoSession

StartNext ==
    \/ StartDatabase
    \/ SkipDatabase
    \/ Next

StartSpec == StartInit /\ [][StartNext]_vars

\* --------------------------------------------------------------- BufSpec
\* the records the fetch workers hand to the pipeline in BufSpec
WorkerRecords ==
    {url_record(base_url, 0, 200, ""),
     url_record(Url("https", "", "a.test", "/a"), 1, 0, "Request timeout")}

SubdomainSets == SUBSET {get_subdomain(Url("https", "api", "a.test", "/b")),
                         get_subdomain(Url("https", "dev", "a.test", "/"))}

\* a fetch worker buffers a record while the crawl runs
WorkerAppend ==
    /\ main_pc = "crawl"
    /\ Len(appended) < MaxAppends
    /\ \E record \in WorkerRecords, io \in IoOutcomes : AddRecord(record, io)
    /\ UNCHANGED <<job_vars, buffer_handler, faults, session, buffer_flush_event, monitor_pc, sub_iter, crawl_vars,
                   found_subdomains, main_pc>>

\* the crawl loop ends, having found some subdomains
CrawlEnds ==
    /\ main_pc = "crawl"
    /\ \E subs \in SubdomainSets : found_subdomains' = subs
    /\ main_pc' = "finally"
    /\ UNCHANGED <<job_vars, buffer_handler, faults, session, buf_vars, crawl_vars>>

\* the pipeline of a session whose sink may raise and whose disk may fail
BufInit ==
    /\ InitHandler /\ InitCrawl
    /\ main_pc = "crawl"
    /\ fails_left \in SinkFailureBudgets
    /\ faults \in BOOLEAN
    /\ session = start_session
    /\ InitJobs

BufNext ==
    \/ WorkerAppend
    \/ CrawlEnds
    \/ MonitorIteration
    \/ MonitorExit
    \/ Finalisation

BufSpec == BufInit /\ [][BufNext]_vars

\* --------------------------------------------------------------- JobSpec
\* the API process: no CLI session runs in it
cli_vars == <<buf_vars, crawl_vars, found_subdomains, main_pc, faults, session,
              buffer_handler>>

JobInit ==
    /\ InitHandler /\ InitCrawl /\ InitJobs
    /\ main_pc = "api"
    /\ fails_left = 0
    /\ faults = FALSE
    /\ session = start_session

ApiTaskStep ==
    \E j \in JobIds, i \in Tasks :
        \/ ApiTaskStart(j, i) /\ UNCHANGED cli_vars
        \/ ApiRateLimitSleep(j, i) /\ UNCHANGED cli_vars
        \/ ApiAcquireSemaphore(j, i) /\ UNCHANGED cli_vars
        \/ ApiResponse200(j, i) /\ UNCHANGED cli_vars
        \/ ApiProcessLinks(j, i) /\ UNCHANGED cli_vars
        \/ ApiRequestFailed(j, i) /\ UNCHANGED cli_vars

JobStep ==
    \E j \in JobIds :
        \/ CreateJob(j) /\ UNCHANGED cli_vars
        \/ CancelJob(j) /\ UNCHANGED cli_vars
        \/ RunCrawlJob(j) /\ UNCHANGED cli_vars
        \/ RunNextBatch(j) /\ UNCHANGED cli_vars
        \/ RunFinish(j) /\ UNCHANGED cli_vars

JobNext ==
    \/ JobStep
    \/ ApiTaskStep
    \/ ClearCompletedJobs /\ UNCHANGED cli_vars

JobSpec == JobInit /\ [][JobNext]_vars

\* =================================================================== claims
AllTasksReturned == \A i \in Tasks : task_pc[i] \in {"idle", "done"}

LastIsFlush == last.op \in {"flush_if_needed", "final_flush"}

\* C1 (Spec): at-most-once fetch. For every url at most one worker ever finds it
\* absent from visited_urls (a worker between its test and its insert, or the
\* url already inserted), and session.get is issued for it at most once,
\* however the workers of a batch interleave and however often the url is queued.
C1_AtMostOnceFetch ==
    \A u \in Candidates :
        /\ get_count[u] <= 1
        /\ Cardinality({i \in 1..Len(batch) :
                           batch[i][1] = u /\ task_pc[i] = "insert_visited"})
             + (IF u \in visited_urls THEN 1 ELSE 0) <= 1

\* C1 witness: two workers of one batch were given the same url, both have
\* returned, and exactly one GET was issued for it.
C1_Witness ==
    \E i, j \in 1..Len(batch) :
        /\ i # j
        /\ batch[i][1] = batch[j][1]
        /\ task_pc[i] = "done" /\ task_pc[j] = "done"
        /\ get_count[batch[i][1]] = 1

\* C2 (Spec), the claim as stated: once every dispatched worker has returned,
\* the number of url records ever produced equals |visited_urls|.
C2_OneRecordPerVisit ==
    AllTasksReturned => Len(url_records(appended)) = Cardinality(visited_urls)

\* C3 (Spec): depth enforcement. Every entry of the pending list, of the batch
\* being processed and of every worker's result has depth <= max_depth.
C3_DepthBounded ==
    /\ \A k \in 1..Len(urls_to_visit) : urls_to_visit[k][2] <= max_depth
    /\ \A k \in 1..Len(batch) : batch[k][2] <= max_depth
    /\ \A i \in Tasks : \A k \in 1..Len(results[i]) : results[i][k][2] <= max_depth

\* C3 witness: a page fetched at depth max_depth listed in-scope links (none of
\* which was emitted) while an entry at depth max_depth is in the batch.
C3_Witness ==
    /\ depth_cut
    /\ \E k \in 1..Len(batch) : batch[k][2] = max_depth

\* C4 (Spec): bounded parallelism. The workers holding a permit (request in
\* flight or body being read) are never more than args.workers, and the
\* semaphore counts exactly the permits left.
InFlight == {i \in Tasks : task_pc[i] \in {"get", "read_body"}}

C4_BoundedParallelism ==
    /\ Cardinality(InFlight) <= workers
    /\ semaphore = workers - Cardinality(InFlight)

\* C4 witness: every permit is taken and another worker of the batch waits.
C4_Witness ==
    /\ Cardinality(InFlight) = workers
    /\ \E i \in Tasks : task_pc[i] = "wait_semaphore"

\* C5 (BufSpec), the claim as stated: after a flush attempt the sink rejected,
\* the buffer holds what it held before the attempt.
C5_FailedFlushKeepsBuffer ==
    (LastIsFlush /\ last.raised) => buffer = last.pre_buffer

\* C6 (BufSpec): flush success. After the sink accepted a flush of a non-empty
\* buffer, the buffer is empty, the mirror file does not exist, flush_count grew
\* by 1, total_flushed grew by the number of records the buffer held, and that
\* number was returned.
C6_FlushSuccess ==
    (LastIsFlush /\ last.called /\ ~last.raised) =>
        /\ last.pre_buffer # <<>>
        /\ buffer = <<>>
        /\ ~buffer_file.exists
        /\ flush_count = last.pre_flush_count + 1
        /\ total_flushed = last.pre_total_flushed + Len(last.pre_buffer)
        /\ last.ret = Len(last.pre_buffer)

\* C6 witness: a flush by the monitor was accepted while a mirror file existed
\* and the buffer held more than buffer_limit records.
C6_Witness ==
    /\ last.op = "flush_if_needed" /\ last.called /\ ~last.raised
    /\ last.pre_file.exists
    /\ Len(last.pre_buffer) > buffer_limit

C11_TrickleFlushedInBoundedTicks ==
    main_pc = "crawl" => idle_ticks < MaxTicks

\* C11 amended (BufSpec): a turn of the periodic task hands the buffer to the
\* sink exactly when it holds at least buffer_limit records; a turn that finds
\* fewer calls no sink and leaves the buffer and the counters as they were,
\* however many turns pass.
C11_MonitorFlushesAtThresholdOnly ==
    last.op = "flush_if_needed" =>
        /\ last.called <=> Len(last.pre_buffer) >= buffer_limit
        /\ ~last.called =>
              /\ buffer = last.pre_buffer
              /\ flush_count = last.pre_flush_count
              /\ total_flushed = last.pre_total_flushed

\* C11 witness: the session is running, a record has waited below the threshold
\* through MaxTicks turns of the periodic task, and nothing reached the sink.
C11_Witness ==
    /\ main_pc = "crawl"
    /\ last.op = "flush_if_needed" /\ ~last.called
    /\ idle_ticks = MaxTicks
    /\ buffer # <<>> /\ Len(buffer) < buffer_limit
    /\ delivered = {}

\* url records buffered so far for a url
records_of(u) == {k \in 1..Len(appended) : appended[k].type = "url" /\ appended[k].url = u}

\* C12 (Spec): cooperative cancellation. Once shutdown_flag is set no batch is
\* drawn or dispatched any more; and every fetch that was past the visited test
\* when the flag was set has run to completion and buffered its record by the
\* time the batch in progress has been gathered.
C12_CooperativeCancellation ==
    /\ [][shutdown_flag => ~(main_pc = "loop" /\ main_pc' = "gather")]_vars
    /\ [][(main_pc = "gather" /\ main_pc' # "gather") =>
              /\ AllTasksReturned
              /\ \A u \in in_flight_at_cancel : records_of(u) # {}]_vars

\* C12 witness: the flag was set while a fetch of the batch was in flight and
\* entries were pending; every task of the batch has returned and the fetch has
\* buffered its record.
C12_Witness ==
    /\ shutdown_flag
    /\ main_pc = "gather"
    /\ \A i \in 1..Len(batch) : task_pc[i] = "done"
    /\ urls_to_visit # <<>>
    /\ in_flight_at_cancel # {}
    /\ \A u \in in_flight_at_cancel : records_of(u) # {}

\* a url record of a fetch that failed: non-200 status, timeout or other error
is_failure(record) == record.type = "url" /\ record.status_code # 200

\* C15 (Spec): per-url failures are contained. Whatever fetches failed, the loop
\* has ended only with the pending list empty or with shutdown_flag set, and a
\* session that was not interrupted is stored as 'completed' with
\* completed_normally true and every visited url counted.
C15_FailuresContained ==
    /\ main_pc \notin {"loop", "gather"} => (urls_to_visit = <<>> \/ shutdown_flag)
    /\ (main_pc = "done" /\ ~shutdown_flag) =>
          /\ session.status = "completed"
          /\ session.metrics.completed_normally
          /\ session.metrics.urls_visited = Cardinality(visited_urls)

\* C15 witness: a fetch failed, a fetch of another url was recorded after it, and
\* the session, never interrupted, is stored as completed with nothing pending.
C15_Witness ==
    /\ main_pc = "done" /\ ~shutdown_flag
    /\ session.status = "completed"
    /\ urls_to_visit = <<>>
    /\ \E k, l \in 1..Len(appended) :
          /\ k < l
          /\ is_failure(appended[k])
          /\ appended[l].type = "url" /\ appended[l].url # appended[k].url

\* C16 (LiveSpec): scheduler termination. When every dispatched fetch returns the
\* loop ends; if shutdown_flag was never set it ends with the pending list
\* empty; and an iteration that starts with the pending list empty or the flag
\* set draws no batch: the only step main takes from there ends the loop.
C16_SchedulerTerminates ==
    /\ <>(main_pc = "finally")
    /\ [](main_pc = "finally" /\ ~shutdown_flag => urls_to_visit = <<>>)
    /\ [][(main_pc = "loop" /\ ~loop_condition) => main_pc' \in {"loop", "finally"}]_vars

\* C16 witness: the loop ended on an empty pending list, without the flag, after
\* several batches had visited every page of the site.
C16_Witness ==
    /\ main_pc = "finally" /\ ~shutdown_flag
    /\ urls_to_visit = <<>>
    /\ visited_urls = InDomainUrls

\* C17 (Spec): batching. A batch is drawn only from a non-empty pending list with
\* the flag unset; it is the first min(2*workers, |pending|) entries, which leave
\* the list, with one task started per entry; and while a batch is being
\* gathered the pending list and the batch change only once every task of the
\* batch has returned.
C17_Batching ==
    /\ [][(main_pc = "loop" /\ main_pc' = "gather") =>
              /\ urls_to_visit # <<>> /\ ~shutdown_flag
              /\ Len(batch') = (IF 2 * workers < Len(urls_to_visit)
                                THEN 2 * workers ELSE Len(urls_to_visit))
              /\ batch' \o urls_to_visit' = urls_to_visit
              /\ {i \in Tasks : task_pc'[i] = "start"} = 1..Len(batch')
              /\ \A i \in Tasks : task_pc'[i] \in {"start", "idle"}]_vars
    /\ [][(main_pc = "gather" /\ (urls_to_visit' # urls_to_visit \/ batch' # batch)) =>
              \A i \in 1..Len(batch) : task_pc[i] = "done"]_vars

\* C17 witness: a batch of 2*workers entries was drawn from a longer pending
\* list; one of its tasks has returned and waits for another that has not.
C17_Witness ==
    /\ main_pc = "gather"
    /\ Len(batch) = 2 * workers
    /\ urls_to_visit # <<>>
    /\ \E i, j \in 1..Len(batch) :
          task_pc[i] = "done" /\ task_pc[j] \notin {"done", "idle", "start"}

\* the entries a sequence of (url, depth) holds for a url
entries_for(q, u) == {k \in 1..Len(q) : q[k][1] = u}

\* the children the tasks of the batch returned for a url, over all results
children_for(u) ==
    {<<i, k>> \in (1..Len(batch)) \X (1..Len(CandidateSeq)) :
        k <= Len(results[i]) /\ results[i][k][1] = u}

\* C18 (Spec): merge-time dedup filter. The merge after a batch keeps the pending
\* list as a prefix and appends, for every url, no entry when the url is in
\* visited_urls at that time and otherwise one entry per child returned for it
\* (so an unvisited url may be pending more than once).
C18_MergeFilter ==
    [][(main_pc = "gather" /\ main_pc' = "loop") =>
          /\ Len(urls_to_visit') >= Len(urls_to_visit)
          /\ SubSeq(urls_to_visit', 1, Len(urls_to_visit)) = urls_to_visit
          /\ \A u \in Candidates :
                Cardinality(entries_for(urls_to_visit', u))
                    - Cardinality(entries_for(urls_to_visit, u))
                  = (IF u \in visited_urls THEN 0 ELSE Cardinality(children_for(u)))]_vars

\* C18 witness: the merge just done left out a child that was already visited and
\* appended the same unvisited url twice.
C18_Witness ==
    /\ main_pc = "loop"
    /\ merge_dropped
    /\ \E k, l \in 1..Len(urls_to_visit) :
          /\ k < l
          /\ urls_to_visit[k][1] = urls_to_visit[l][1]
          /\ urls_to_visit[k][1] \notin visited_urls

\* the terminal statuses of a job
Terminal == {"completed", "failed", "cancelled"}

\* C13 (JobSpec): a job whose run observed the cancellation (its state's
\* shutdown_flag was set from job["_cancelled"]) and has returned ends with the
\* status cancelled and with the urls it fetched in its result payload.
C13_CancelObservedEndsCancelled ==
    \A j \in JobIds :
        (run_pc[j] = "returned" /\ crawler_state[CrawlerState(j)].shutdown_flag) =>
            /\ jobs[j].status = "cancelled"
            /\ jobs[j].results.present
            /\ api_fetched[j] \subseteq jobs[j].results.visited_urls

\* C14 (JobSpec): once a job has a terminal status, no step changes its status.
C14_TerminalStatusFinal ==
    [][\A j \in JobIds :
          jobs[j].status \in Terminal => jobs'[j].status = jobs[j].status]_vars

\* the urls the tasks of job j hold between the insert into visited_urls and the
\* request
api_before_get(j) ==
    {api_batch[j][i][1] : i \in {k \in 1..Len(api_batch[j]) :
                                   api_task_pc[j][k] \in {"sleep", "wait_semaphore"}}}

\* the paths the requests job j issued can have put in found_paths
api_own_paths(j) ==
    UNION {paths_found(u, f) : <<u, f>> \in
             {p \in api_fetched[j] \X Candidates : p[2] \in FinalUrls(p[1])}}

C20_TerminalCarriesResults ==
    \A j \in JobIds :
        (jobs[j].status \in Terminal /\ api_fetched[j] # {}) =>
            /\ jobs[j].results.present
            /\ jobs[j].results.metrics
            /\ api_fetched[j] \subseteq jobs[j].results.visited_urls

\* C21 (StartSpec): when the database could not be set up at the start of main
\* (no handler was built), no batch is dispatched and no request is issued.
C21_StartFailureAborts ==
    (main_pc # "start" /\ ~buffer_handler) =>
        /\ main_pc # "gather"
        /\ \A u \in Candidates : get_count[u] = 0

\* C22 (BufSpec): one subdomain record per distinct subdomain. The buffer never
\* holds two subdomain records with the same subdomain, and once main is done the
\* sink has accepted the record of every subdomain found.
C22_OneSubdomainRecord ==
    /\ \A k, l \in 1..Len(buffer) :
          (k < l /\ buffer[k].type = "subdomain" /\ buffer[l].type = "subdomain") =>
              buffer[k].subdomain # buffer[l].subdomain
    /\ main_pc = "done" =>
          \A subdomain \in found_subdomains : subdomain_record(subdomain) \in delivered

\* C23 (Spec): monotonic discovery state. No step of the workers, the scheduler,
\* the signal handler or the finalisation removes an element from visited_urls,
\* found_subdomains or found_paths (of the CLI session, or of the state of a job).
C23_MonotonicDiscovery ==
    [][/\ visited_urls \subseteq visited_urls'
       /\ found_subdomains \subseteq found_subdomains'
       /\ found_paths \subseteq found_paths'
       /\ \A s \in JobIds :
             /\ crawler_state[s].visited_urls \subseteq crawler_state'[s].visited_urls
             /\ crawler_state[s].found_subdomains \subseteq crawler_state'[s].found_subdomains
             /\ crawler_state[s].found_paths \subseteq crawler_state'[s].found_paths]_vars

\* C23 witness: an interrupted session went through the finalisation with more
\* than one url visited and with subdomains and paths found.
C23_Witness ==
    /\ main_pc = "done"
    /\ shutdown_flag
    /\ Cardinality(visited_urls) > 1
    /\ found_subdomains # {}
    /\ found_paths # {}

\* C24 (JobSpec): the job runs the engine of the CLI, record pipeline included.
\* For every url a job has requested whose task has returned, an outcome record
\* has been appended to the buffer pipeline.
C24_JobEmitsOutcomeRecords ==
    \A j \in JobIds :
        \A i \in 1..Len(api_batch[j]) :
            (api_task_pc[j][i] = "done" /\ api_batch[j][i][1] \in api_fetched[j]) =>
                records_of(api_batch[j][i][1]) # {}

\* urls that enter found_paths only through their own fetch: no redirect of
\* another url ends on them
own_path_only(u) == \A v \in Candidates \ {u} : u \notin FinalUrls(v)

\* C25 (Spec): a fetch attempt that ended with a failure (non-200 status, timeout,
\* client error or other exception) has added nothing to found_paths: a url with a
\* failure record, that only its own fetch could have put in found_paths, is not
\* there; and its task returned no children.
C25_FailedAttemptAddsNothing ==
    /\ \A u \in Candidates :
          (own_path_only(u) /\ \E k \in records_of(u) : is_failure(appended[k])) =>
              u \notin found_paths
    /\ \A i \in 1..Len(batch) :
          (task_pc[i] = "done" /\ \E k \in records_of(batch[i][1]) : is_failure(appended[k])) =>
              results[i] = <<>>

\* C26 (Spec): a worker that finds shutdown_flag set when it starts returns at
\* once with no children and changes nothing: visited_urls, the records, the
\* semaphore, the requests issued, the found sets, the lock and the progress
\* counter are as they were.
C26_CancelledWorkerChangesNothing ==
    [][\A i \in Tasks :
          (task_pc[i] = "start" /\ task_pc'[i] # "start" /\ shutdown_flag) =>
              /\ task_pc'[i] = "done"
              /\ results'[i] = <<>>
              /\ UNCHANGED <<visited_urls, appended, buffer, semaphore, get_count,
                             found_paths, found_subdomains, urls_lock, pbar>>]_vars

\* C26 witness: in an interrupted batch a task has returned whose url was never
\* inserted into visited_urls, while another task of the batch did its fetch.
C26_Witness ==
    /\ main_pc = "gather"
    /\ shutdown_flag
    /\ \E i, k \in 1..Len(batch) :
          /\ task_pc[i] = "done" /\ batch[i][1] \notin visited_urls
          /\ results[i] = <<>>
          /\ task_pc[k] = "done" /\ records_of(batch[k][1]) # {}

\* C27 (Spec): progress in lockstep. Whenever every dispatched worker has
\* returned, the progress counter equals the number of visited urls: each attempt
\* that passed the visited test reported once, whatever its outcome; and the
\* counter never runs ahead of visited_urls.
C27_ProgressLockstep ==
    /\ AllTasksReturned => pbar = Cardinality(visited_urls)
    /\ pbar <= Cardinality(visited_urls)

\* C27 witness: all workers have returned, after a fetch that ended with status
\* 200 and one that failed.
C27_Witness ==
    /\ AllTasksReturned
    /\ pbar >= 2
    /\ \E k, l \in 1..Len(appended) :
          /\ appended[k].type = "url" /\ appended[k].status_code = 200
          /\ is_failure(appended[l])
          /\ appended[k].url # appended[l].url

\* C28 (Spec): subdomain bookkeeping regardless of the depth cut. The subdomain
\* of every in-scope link a page listed is in found_subdomains, also when the page
\* was fetched at the depth limit; children are returned only by a task whose
\* depth is below max_depth, at depth + 1, and their subdomains are recorded too.
C28_SubdomainsRegardlessOfDepth ==
    /\ cut_subdomains \subseteq found_subdomains
    /\ \A i \in 1..Len(batch) :
          /\ ~within_depth_limit(batch[i][2]) => results[i] = <<>>
          /\ \A k \in 1..Len(results[i]) :
                /\ results[i][k][2] = batch[i][2] + 1
                /\ in_scope(results[i][k][1])
                /\ get_subdomain(results[i][k][1]) # None =>
                      get_subdomain(results[i][k][1]) \in found_subdomains

\* C28 witness: a page at the depth limit listed an in-scope link on a subdomain;
\* the crawl has ended without that subdomain's page being visited or pending.
C28_Witness ==
    /\ cut_subdomains # {}
    /\ main_pc = "finally"
    /\ ~shutdown_flag
    /\ \A u \in visited_urls : get_subdomain(u) = None
    /\ found_paths \subseteq {u \in Candidates : get_subdomain(u) = None}

\* C29 (Spec): every entry a worker returned, and every entry pending, has an
\* http or https scheme, is matched by neither exclusion pattern and is in the
\* registrable domain of the base url; and the subdomain of a candidate that the
\* scheme test or an exclusion pattern dropped is not in found_subdomains.
C29_FrontierInScope ==
    /\ \A i \in 1..Len(batch) : \A k \in 1..Len(results[i]) :
          /\ results[i][k][1].scheme \in {"http", "https"}
          /\ ~should_exclude(results[i][k][1])
          /\ is_same_domain(results[i][k][1], base_url)
    /\ \A k \in 1..Len(urls_to_visit) :
          /\ urls_to_visit[k][1].scheme \in {"http", "https"}
          /\ ~should_exclude(urls_to_visit[k][1])
          /\ is_same_domain(urls_to_visit[k][1], base_url)
    /\ \A u \in Candidates :
          (u.scheme \notin {"http", "https"} \/ should_exclude(u)) =>
              get_subdomain(u) \notin found_subdomains

\* C29 witness: a page of the batch listed links that the filters drop next to
\* links of the site; its task returned children, and every task is back.
C29_Witness ==
    /\ main_pc = "gather"
    /\ dropped_links
    /\ \A i \in 1..Len(batch) : task_pc[i] = "done"
    /\ \E i \in 1..Len(batch) : Len(results[i]) >= 2

holding_permit == {i \in Tasks : task_pc[i] \in {"get", "read_body"}}

\* C31 (Spec): attempt ordering. A task goes through the flag test, the visited
\* test and insert, the rate-limit sleep, the semaphore, the request and the
\* release in that order: each step of a task moves it to the next position or to
\* its return; a permit is held exactly by the tasks between the acquisition and
\* the return (none by a sleeping task); a task that sleeps, waits for a permit or
\* fetches has inserted its url first, and of two tasks with the same url at most
\* one gets past the visited test.
C31_AttemptOrdering ==
    /\ [](semaphore = workers - Cardinality(holding_permit))
    /\ [](\A i \in 1..Len(batch) :
            task_pc[i] \in {"sleep", "wait_semaphore", "get", "read_body"} =>
                /\ batch[i][1] \in visited_urls
                /\ \A k \in 1..Len(batch) :
                      (k # i /\ batch[k][1] = batch[i][1]) =>
                          task_pc[k] \in {"start", "wait_urls_lock", "test_visited", "done"})
    /\ [][\A i \in Tasks :
            (task_pc'[i] # task_pc[i] /\ task_pc[i] \notin {"idle", "done"}) =>
                <<task_pc[i], task_pc'[i]>> \in
                    {<<"start", "wait_urls_lock">>, <<"start", "done">>,
                     <<"wait_urls_lock", "test_visited">>,
                     <<"test_visited", "insert_visited">>, <<"test_visited", "done">>,
                     <<"insert_visited", "sleep">>, <<"sleep", "wait_semaphore">>,
                     <<"wait_semaphore", "get">>, <<"get", "read_body">>,
                     <<"get", "done">>, <<"read_body", "done">>}]_vars

\* C31 witness: one task sleeps its rate-limit delay, holding no permit, while
\* the other holds the only permit for its request.
C31_Witness ==
    /\ semaphore = 0
    /\ \E i, k \in 1..Len(batch) : task_pc[i] = "sleep" /\ task_pc[k] = "get"

\* C32 (BufSpec): finalisation ordering. From the moment main adds the subdomain
\* records and calls final_flush the monitor task has exited, and no step after
\* that is a flush_if_needed call; complete_session runs only after final_flush,
\* which is then the last call made on the handler.
C32_FinalisationOrdering ==
    /\ [](main_pc \in {"add_subdomains", "complete_session", "done"} =>
             monitor_pc = "exited" /\ buffer_flush_event)
    /\ [](main_pc \in {"complete_session", "done"} => last.op = "final_flush")
    /\ [](session.status # "running" => main_pc = "done" /\ last.op = "final_flush")
    /\ [][(main_pc \in {"add_subdomains", "complete_session", "done"}) =>
             (last' # last => (last').op \in {"add_record", "final_flush"})]_vars

\* C32 witness: the monitor flushed a full buffer during the crawl, then was
\* stopped; the final flush handed the rest to the sink and the session was
\* completed.
C32_Witness ==
    /\ main_pc = "done"
    /\ session.status = "completed"
    /\ monitor_pc = "exited"
    /\ last.op = "final_flush" /\ last.called /\ ~last.raised
    /\ flush_count >= 2

\* C33 (BufSpec): flush_if_needed threshold. A call that finds fewer than
\* buffer_limit records calls no sink, returns 0 and leaves the buffer, the
\* mirror file and both counters as they were; a call that finds buffer_limit
\* records or more hands the whole buffer to the sink as one batch.
C33_FlushIfNeededThreshold ==
    last.op = "flush_if_needed" =>
        /\ Len(last.pre_buffer) < buffer_limit =>
              /\ ~last.called /\ last.ret = 0
              /\ buffer = last.pre_buffer
              /\ buffer_file = last.pre_file
              /\ flush_count = last.pre_flush_count
              /\ total_flushed = last.pre_total_flushed
        /\ Len(last.pre_buffer) >= buffer_limit =>
              /\ last.called
              /\ last.batch = last.pre_buffer
              /\ ~last.raised => last.ret = Len(last.pre_buffer)

\* C33 witness: the periodic task found more than buffer_limit records and the
\* sink took all of them in one flush.
C33_Witness ==
    /\ last.op = "flush_if_needed" /\ last.called /\ ~last.raised
    /\ Len(last.pre_buffer) > buffer_limit
    /\ last.ret = Len(last.pre_buffer)
    /\ buffer = <<>>

\* C34 (BufSpec): append/flush serialisation. Whatever the order of the
\* workers' appends and the periodic task's flushes, every record ever appended
\* is in the sink or still in the buffer; a flush takes out of the buffer only
\* records of the batch it handed to the sink, and an append takes out none.
C34_NoAppendLostToFlush ==
    /\ [](\A k \in 1..Len(appended) :
             appended[k] \in delivered \/ appended[k] \in Range(buffer))
    /\ [][(buffer' # buffer) =>
             /\ (Range(buffer) \ Range(buffer')) \subseteq Range((last').batch)
             /\ (Range(buffer) \ Range(buffer')) \subseteq delivered'
             /\ (last').op = "add_record" => Len(buffer') = Len(buffer) + 1]_vars

\* C34 witness: a worker appended a record after the periodic task had flushed
\* an earlier one to the sink; the new record waits in the buffer.
C34_Witness ==
    /\ main_pc = "crawl"
    /\ last.op = "add_record"
    /\ flush_count >= 1 /\ delivered # {}
    /\ \E k \in 1..Len(buffer) : buffer[k] \notin delivered

\* C35 (Spec), the claim as stated: the stored metrics are the sizes of
\* visited_urls, found_subdomains and found_paths, and the stored status is
\* 'completed' exactly when the stored completed_normally is true.
C35_MetricsMatchStatus ==
    main_pc = "done" =>
        /\ session.metrics.urls_visited = Cardinality(visited_urls)
        /\ session.metrics.subdomains_found = Cardinality(found_subdomains)
        /\ session.metrics.paths_found = Cardinality(found_paths)
        /\ session.status = "completed" <=> session.metrics.completed_normally

\* C36 (JobSpec): results are served only for terminal jobs. In every reachable
\* state a request for the results of a queued or running job is answered 400
\* with no payload, a request for an id in neither registry is answered 404, and
\* a payload is returned only for a job that is completed, failed or cancelled:
\* "results" for a completed job, "partial_results" for the other two.
C36_ResultsOnlyWhenTerminal ==
    \A j \in JobIds :
        LET response == get_job_results(j)
        IN  /\ (j \notin active_jobs /\ j \notin completed_jobs) =>
                  response.code = 404 /\ response.payload = "none"
            /\ (j \in active_jobs \cup completed_jobs /\ jobs[j].status \in {"queued", "running"}) =>
                  response.code = 400 /\ response.payload = "none"
            /\ response.payload # "none" =>
                  /\ response.code = 200
                  /\ jobs[j].status \in {"completed", "failed", "cancelled"}
                  /\ response.payload = "results" <=> jobs[j].status = "completed"
                  /\ response.results = jobs[j].results

\* C36 witness: one job is running and its results are refused, while another
\* has completed and its results are served.
C36_Witness ==
    \E j, k \in JobIds :
        /\ jobs[j].status = "running" /\ get_job_results(j).code = 400
        /\ jobs[j].results = NoResults /\ crawler_state[CrawlerState(j)].visited_urls # {}
        /\ jobs[k].status = "completed" /\ get_job_results(k).payload = "results"
        /\ get_job_results(k).results.visited_urls # {}

\* C37 (BufSpec): a failed flush changes no counter. A flush the sink rejected
\* returned 0 and left flush_count and total_flushed as they were; both are 0
\* before the first attempt, and every step adds to total_flushed the value the
\* flush call of that step returned (nothing when the step is no flush call) and
\* adds one to flush_count exactly when that value is positive, so total_flushed
\* is the sum of the returned values and flush_count the number of positive ones.
C37_FailedFlushChangesNoCounter ==
    /\ []((LastIsFlush /\ last.raised) =>
             /\ last.ret = 0
             /\ flush_count = last.pre_flush_count
             /\ total_flushed = last.pre_total_flushed)
    /\ [](flush_attempts = 0 => flush_count = 0 /\ total_flushed = 0)
    /\ [][LET flushed == /\ last' # last
                         /\ (last').op \in {"flush_if_needed", "final_flush"}
              returned == IF flushed THEN (last').ret ELSE 0
          IN  /\ total_flushed' = total_flushed + returned
              /\ flush_count' = flush_count + (IF returned > 0 THEN 1 ELSE 0)]_vars

\* C37 witness: the sink accepted one flush and rejected a later one; the
\* counters still show the accepted flush only.
C37_Witness ==
    /\ LastIsFlush /\ last.called /\ last.raised /\ last.ret = 0
    /\ flush_count = 1 /\ last.pre_flush_count = 1
    /\ total_flushed > 0 /\ total_flushed = last.pre_total_flushed

\* C38 (JobSpec): job registry partition. In every reachable state no job id is
\* in both active_jobs and completed_jobs, every job in active_jobs is queued or
\* running, and every job in completed_jobs is completed, failed or cancelled.
C38_RegistryPartition ==
    /\ active_jobs \cap completed_jobs = {}
    /\ \A j \in active_jobs : jobs[j].status \in {"queued", "running"}
    /\ \A j \in completed_jobs : jobs[j].status \in {"completed", "failed", "cancelled"}

\* C38 witness: one job is running in active_jobs, while the other, cancelled
\* during its run and cleared from completed_jobs, runs on outside both
\* registries.
C38_Witness ==
    \E j, k \in JobIds :
        /\ j \in active_jobs /\ jobs[j].status = "running"
        /\ k \notin active_jobs \cup completed_jobs
        /\ jobs[k].status = "cancelled" /\ run_pc[k] = "gather"

\* C39 (JobSpec): a job cancelled while queued is never started. When
\* run_crawl_job begins for a job that is no longer in active_jobs it returns
\* with the job record, the requests issued and the job's tasks as they were;
\* such a job stays cancelled for good, with no url requested, no url visited
\* and no results.
C39_CancelledWhileQueuedNeverStarts ==
    /\ [](\A j \in JobIds :
             (jobs[j].status = "cancelled" /\ run_pc[j] \in {"scheduled", "returned"}) =>
                 /\ j \notin active_jobs
                 /\ api_fetched[j] = {}
                 /\ jobs[j].results = NoResults
                 /\ crawler_state[CrawlerState(j)] = new_crawler_state)
    /\ [][\A j \in JobIds :
             (run_pc[j] = "scheduled" /\ j \notin active_jobs /\ run_pc'[j] # run_pc[j]) =>
                 /\ run_pc'[j] = "returned"
                 /\ jobs'[j] = jobs[j]
                 /\ api_fetched'[j] = api_fetched[j]
                 /\ api_task_pc'[j] = api_task_pc[j]
                 /\ crawler_state'[CrawlerState(j)] = crawler_state[CrawlerState(j)]]_vars
    /\ [][\A j \in JobIds :
             (jobs[j].status = "cancelled" /\ run_pc[j] \in {"scheduled", "returned"}) =>
                 /\ jobs'[j] = jobs[j]
                 /\ run_pc'[j] \in {"scheduled", "returned"}]_vars

\* C39 witness: a job was cancelled before its run began and the run has
\* returned, while the other job has issued requests.
C39_Witness ==
    \E j, k \in JobIds :
        /\ jobs[j].status = "cancelled" /\ run_pc[j] = "returned"
        /\ api_fetched[j] = {}
        /\ api_fetched[k] # {}

====
